---- MODULE Spec2Model ----
(***************************************************************************)
(* HoleVec (src/src/lib.rs): a sequence with one movable hole, stored in a *)
(* std::collections::VecDeque.  The deque holds the after-hole region at   *)
(* its front and the before-hole region at its back, so the hole sits at   *)
(* the junction between the back and the front of the ring.                *)
(*                                                                         *)
(* The model keeps the deque's physical layout (allocation, head, len) so  *)
(* that the wraparound split reported by VecDeque::as_slices is the real   *)
(* one, and runs the test module's reference Model (two plain vectors)     *)
(* in lock step, as tests::Operation::apply does.                          *)
(***************************************************************************)
EXTENDS Integers, Sequences, FiniteSets, TLC

(* ---------------------------- bounds ----------------------------------- *)
\* element values pushed by the operations are 1..NumValues
NumValues == 2
\* pushes are offered while len() < MaxLen
MaxLen == 3
\* with_capacity(n) is offered for n in 0..MaxInitCap
MaxInitCap == 3

Values == 1..NumValues
\* content of an allocation slot that holds no live element
Nil == 0

VARIABLES hole_vec, model, last, panicked

vars == <<hole_vec, model, last, panicked>>

(* ------------------------- Option<T> ----------------------------------- *)
None == <<>>
Some(v) == <<v>>

(* ------------------- std::collections::VecDeque ------------------------ *)
(* A deque is [buf, head, len]: buf is the allocation, a function on       *)
(* 0..cap-1; the i-th logical element lives in slot wrap(head + i).        *)

capacity(d) == Cardinality(DOMAIN d.buf)

Max(a, b) == IF a >= b THEN a ELSE b

\* smallest non-empty allocation made by the amortized growth
MIN_NON_ZERO_CAP == 4

wrap_index(logical_index, cap) ==
    IF logical_index >= cap THEN logical_index - cap ELSE logical_index

to_physical_idx(d, idx) == wrap_index(d.head + idx, capacity(d))

wrap_sub(d, idx, subtrahend) ==
    wrap_index(idx - subtrahend + capacity(d), capacity(d))

is_full(d) == d.len = capacity(d)

\* slots outside the live range hold moved-out values: keep them as Nil
Live(d) == { to_physical_idx(d, i) : i \in 0..(d.len - 1) }

Normalise(d) ==
    [d EXCEPT !.buf = [p \in DOMAIN d.buf |->
                          IF p \in Live(d) THEN d.buf[p] ELSE Nil]]

\* memmove of n slots from src.. to dst.., both wrapping around the allocation
wrap_copy(d, src, dst, n) ==
    LET cap == capacity(d)
        from(p) == CHOOSE j \in 0..(n - 1) : wrap_index(dst + j, cap) = p
    IN [p \in DOMAIN d.buf |->
          IF \E j \in 0..(n - 1) : wrap_index(dst + j, cap) = p
             THEN d.buf[wrap_index(src + from(p), cap)]
             ELSE d.buf[p]]

\* RawVec::grow_one: amortized doubling, at least MIN_NON_ZERO_CAP
grow_one(cap) == Max(MIN_NON_ZERO_CAP, Max(cap * 2, cap + 1))

\* VecDeque::grow + handle_capacity_increase: the ring is re-seated in the
\* larger allocation by moving its shorter physical run
grow(d) ==
    LET old_cap == capacity(d)
        new_cap == grow_one(old_cap)
        big == [d EXCEPT !.buf = [p \in 0..(new_cap - 1) |->
                                    IF p < old_cap THEN d.buf[p] ELSE Nil]]
        head_len == old_cap - d.head
        tail_len == d.len - head_len
    IN IF d.head <= old_cap - d.len
          THEN big
          ELSE IF head_len > tail_len /\ new_cap - old_cap >= tail_len
                  THEN Normalise([big EXCEPT
                           !.buf = wrap_copy(big, 0, old_cap, tail_len)])
                  ELSE Normalise([big EXCEPT
                           !.buf = wrap_copy(big, d.head, new_cap - head_len, head_len),
                           !.head = new_cap - head_len])

vd_push_back(d, value) ==
    LET g == IF is_full(d) THEN grow(d) ELSE d
    IN [g EXCEPT !.buf[to_physical_idx(g, g.len)] = value, !.len = g.len + 1]

vd_push_front(d, value) ==
    LET g == IF is_full(d) THEN grow(d) ELSE d
        h == wrap_sub(g, g.head, 1)
    IN [g EXCEPT !.head = h, !.len = g.len + 1, !.buf[h] = value]

\* the deque after pop_front / pop_back, and the value returned
vd_pop_front(d) ==
    IF d.len = 0
       THEN [vec |-> d, ret |-> None]
       ELSE [vec |-> Normalise([d EXCEPT !.head = to_physical_idx(d, 1),
                                         !.len = d.len - 1]),
             ret |-> Some(d.buf[d.head])]

vd_pop_back(d) ==
    IF d.len = 0
       THEN [vec |-> d, ret |-> None]
       ELSE [vec |-> Normalise([d EXCEPT !.len = d.len - 1]),
             ret |-> Some(d.buf[to_physical_idx(d, d.len - 1)])]

rotate_left_inner(d, mid) ==
    Normalise([d EXCEPT
        !.buf = wrap_copy(d, d.head, to_physical_idx(d, d.len), mid),
        !.head = to_physical_idx(d, mid)])

\* the head moves back first, so the source is taken from the new head
rotate_right_inner(d, k) ==
    LET moved == [d EXCEPT !.head = wrap_sub(d, d.head, k)]
    IN Normalise([moved EXCEPT
        !.buf = wrap_copy(moved, to_physical_idx(moved, moved.len), moved.head, k)])

\* rotate_left(n): the first n elements go to the back; needs n <= len
vd_rotate_left(d, n) ==
    LET k == d.len - n
    IN IF n <= k THEN rotate_left_inner(d, n) ELSE rotate_right_inner(d, k)

\* rotate_right(n): the last n elements go to the front; needs n <= len
vd_rotate_right(d, n) ==
    LET k == d.len - n
    IN IF n <= k THEN rotate_right_inner(d, n) ELSE rotate_left_inner(d, k)

\* the slots p, p+1, ..., q-1 of the allocation as a sequence
Slice(d, p, q) == [i \in 1..(q - p) |-> d.buf[p + i - 1]]

\* VecDeque::as_slices: the physical front run and the wrapped-around run
vd_as_slices(d) ==
    IF d.len = 0
       THEN <<<<>>, <<>>>>
       ELSE LET head_len == capacity(d) - d.head
            IN IF head_len >= d.len
                  THEN <<Slice(d, d.head, d.head + d.len), <<>>>>
                  ELSE <<Slice(d, d.head, capacity(d)),
                         Slice(d, 0, d.len - head_len)>>

vd_with_capacity(cap) ==
    [buf |-> [p \in 0..(cap - 1) |-> Nil], head |-> 0, len |-> 0]

\* slice::split_at(mid)
split_at(s, mid) == <<SubSeq(s, 1, mid), SubSeq(s, mid + 1, Len(s))>>

(* ------------------------------ HoleVec --------------------------------- *)
(* A HoleVec is [vec, hole_position].                                      *)

\* with_capacity that takes the capacity for the hole position
with_capacity_at(cap) == [vec |-> vd_with_capacity(cap), hole_position |-> cap]

with_capacity(cap) == [vec |-> vd_with_capacity(cap), hole_position |-> 0]

new == with_capacity(0)

default == [vec |-> vd_with_capacity(0), hole_position |-> 0]

len(h) == h.vec.len

is_empty(h) == h.vec.len = 0

len_before_hole(h) == h.hole_position

len_after_hole(h) == len(h) - h.hole_position

\* push_before_hole that pushes at the wrong end of the deque
push_before_hole_front(h, value) ==
    [vec |-> vd_push_front(h.vec, value),
     hole_position |-> h.hole_position + 1]

push_before_hole(h, value) ==
    [vec |-> vd_push_back(h.vec, value),
     hole_position |-> h.hole_position + 1]

\* push_after_hole that also counts the value as lying before the hole
push_after_hole_counted(h, value) ==
    [vec |-> vd_push_front(h.vec, value),
     hole_position |-> h.hole_position + 1]

\* push_after_hole that pushes at the wrong end of the deque
push_after_hole_back(h, value) ==
    [h EXCEPT !.vec = vd_push_back(h.vec, value)]

push_after_hole(h, value) ==
    [h EXCEPT !.vec = vd_push_front(h.vec, value)]

\* pop_before_hole guarded by len() instead of len_before_hole()
pop_before_hole_any(h) ==
    IF len(h) > 0
       THEN [hole |-> [vec |-> vd_pop_back(h.vec).vec,
                       hole_position |-> h.hole_position - 1],
             ret |-> vd_pop_back(h.vec).ret]
       ELSE [hole |-> h, ret |-> None]

\* pop_before_hole that takes its element from the front of the deque
pop_before_hole_front(h) ==
    IF len_before_hole(h) > 0
       THEN [hole |-> [vec |-> vd_pop_front(h.vec).vec,
                       hole_position |-> h.hole_position - 1],
             ret |-> vd_pop_front(h.vec).ret]
       ELSE [hole |-> h, ret |-> None]

\* pop_before_hole that forgets to lower hole_position
pop_before_hole_stale(h) ==
    IF len_before_hole(h) > 0
       THEN [hole |-> [h EXCEPT !.vec = vd_pop_back(h.vec).vec],
             ret |-> vd_pop_back(h.vec).ret]
       ELSE [hole |-> h, ret |-> None]

\* each pop yields the container afterwards and the Option returned
pop_before_hole(h) ==
    IF len_before_hole(h) > 0
       THEN [hole |-> [vec |-> vd_pop_back(h.vec).vec,
                       hole_position |-> h.hole_position - 1],
             ret |-> vd_pop_back(h.vec).ret]
       ELSE [hole |-> h, ret |-> None]

\* pop_after_hole guarded by len() instead of len_after_hole()
pop_after_hole_any(h) ==
    IF len(h) > 0
       THEN [hole |-> [h EXCEPT !.vec = vd_pop_front(h.vec).vec],
             ret |-> vd_pop_front(h.vec).ret]
       ELSE [hole |-> h, ret |-> None]

pop_after_hole(h) ==
    IF len_after_hole(h) > 0
       THEN [hole |-> [h EXCEPT !.vec = vd_pop_front(h.vec).vec],
             ret |-> vd_pop_front(h.vec).ret]
       ELSE [hole |-> h, ret |-> None]

\* the assertion of move_hole_right checked against len()
move_hole_right_ok_len(h, amount) == amount <= len(h)

\* the assertion of move_hole_right with a strict comparison
move_hole_right_ok_strict(h, amount) == amount < len_after_hole(h)

\* the assertion of move_hole_left with a strict comparison
move_hole_left_ok_strict(h, amount) == amount < len_before_hole(h)

\* the assertions guarding the relocations
move_hole_right_ok(h, amount) == amount <= len_after_hole(h)

move_hole_left_ok(h, amount) == amount <= len_before_hole(h)

set_hole_position_ok(h, position) == position <= len(h)

\* move_hole_right that rotates the deque the wrong way
move_hole_right_reversed(h, amount) ==
    [vec |-> vd_rotate_right(h.vec, amount),
     hole_position |-> h.hole_position + amount]

move_hole_right(h, amount) ==
    [vec |-> vd_rotate_left(h.vec, amount),
     hole_position |-> h.hole_position + amount]

\* move_hole_left that rotates the deque the wrong way
move_hole_left_reversed(h, amount) ==
    [vec |-> vd_rotate_left(h.vec, amount),
     hole_position |-> h.hole_position - amount]

\* move_hole_left that forgets to lower hole_position
move_hole_left_keep(h, amount) ==
    [h EXCEPT !.vec = vd_rotate_right(h.vec, amount)]

move_hole_left(h, amount) ==
    [vec |-> vd_rotate_right(h.vec, amount),
     hole_position |-> h.hole_position - amount]

\* set_hole_position that delegates to the move in the other direction
set_hole_position_swapped(h, position) ==
    IF position > h.hole_position
       THEN move_hole_left(h, position - h.hole_position)
       ELSE move_hole_right(h, h.hole_position - position)

set_hole_position(h, position) ==
    IF position > h.hole_position
       THEN move_hole_right(h, position - h.hole_position)
       ELSE move_hole_left(h, h.hole_position - position)

\* as_slices whose second branch splits at len_before_hole() from the left
as_slices_missplit(h) ==
    LET after_hole == vd_as_slices(h.vec)[1]
        before_hole == vd_as_slices(h.vec)[2]
    IN IF len_after_hole(h) <= Len(after_hole)
          THEN LET sp == split_at(after_hole, len_after_hole(h))
               IN <<sp[2], before_hole, sp[1]>>
          ELSE LET sp == split_at(before_hole, len_before_hole(h))
               IN <<sp[2], after_hole, sp[1]>>

as_slices(h) ==
    LET after_hole == vd_as_slices(h.vec)[1]
        before_hole == vd_as_slices(h.vec)[2]
    IN IF len_after_hole(h) <= Len(after_hole)
          THEN LET sp == split_at(after_hole, len_after_hole(h))
               IN <<sp[2], before_hole, sp[1]>>
          ELSE LET sp == split_at(before_hole,
                                  Len(before_hole) - len_before_hole(h))
               IN <<sp[2], after_hole, sp[1]>>

\* as_slices_before_hole whose second branch keeps the whole wrapped run
as_slices_before_hole_whole(h) ==
    LET after_hole == vd_as_slices(h.vec)[1]
        before_hole == vd_as_slices(h.vec)[2]
    IN IF len_after_hole(h) <= Len(after_hole)
          THEN LET sp == split_at(after_hole, len_after_hole(h))
               IN <<sp[2], before_hole>>
          ELSE <<before_hole, <<>>>>

\* as_slices_before_hole whose first branch returns its two runs swapped
as_slices_before_hole_swapped(h) ==
    LET after_hole == vd_as_slices(h.vec)[1]
        before_hole == vd_as_slices(h.vec)[2]
    IN IF len_after_hole(h) <= Len(after_hole)
          THEN LET sp == split_at(after_hole, len_after_hole(h))
               IN <<before_hole, sp[2]>>
          ELSE LET sp == split_at(before_hole,
                                  Len(before_hole) - len_before_hole(h))
               IN <<sp[2], <<>>>>

as_slices_before_hole(h) ==
    LET after_hole == vd_as_slices(h.vec)[1]
        before_hole == vd_as_slices(h.vec)[2]
    IN IF len_after_hole(h) <= Len(after_hole)
          THEN LET sp == split_at(after_hole, len_after_hole(h))
               IN <<sp[2], before_hole>>
          ELSE LET sp == split_at(before_hole,
                                  Len(before_hole) - len_before_hole(h))
               IN <<sp[2], <<>>>>

\* as_slices_after_hole whose first branch keeps the whole front run
as_slices_after_hole_whole(h) ==
    LET after_hole == vd_as_slices(h.vec)[1]
        before_hole == vd_as_slices(h.vec)[2]
    IN IF len_after_hole(h) <= Len(after_hole)
          THEN <<after_hole, <<>>>>
          ELSE LET sp == split_at(before_hole,
                                  Len(before_hole) - len_before_hole(h))
               IN <<after_hole, sp[1]>>

as_slices_after_hole(h) ==
    LET after_hole == vd_as_slices(h.vec)[1]
        before_hole == vd_as_slices(h.vec)[2]
    IN IF len_after_hole(h) <= Len(after_hole)
          THEN LET sp == split_at(after_hole, len_after_hole(h))
               IN <<sp[1], <<>>>>
          ELSE LET sp == split_at(before_hole,
                                  Len(before_hole) - len_before_hole(h))
               IN <<after_hole, sp[1]>>

\* split_at(mid) panics unless mid <= len; a negative mid stands for a
\* usize subtraction that underflowed
split_at_ok(s, mid) == mid >= 0 /\ mid <= Len(s)

\* the split index the three views compute, and whether it is in range
slices_split_ok(h) ==
    LET after_hole == vd_as_slices(h.vec)[1]
        before_hole == vd_as_slices(h.vec)[2]
    IN /\ len_after_hole(h) >= 0
       /\ IF len_after_hole(h) <= Len(after_hole)
             THEN split_at_ok(after_hole, len_after_hole(h))
             ELSE split_at_ok(before_hole,
                              Len(before_hole) - len_before_hole(h))

(* ----------------------- tests::Model (reference) ----------------------- *)
(* A Model is [before_hole, after_hole]; after_hole is kept reversed.      *)

Reverse(s) == [i \in 1..Len(s) |-> s[Len(s) + 1 - i]]

Model_new == [before_hole |-> <<>>, after_hole |-> <<>>]

Model_len(m) == Len(m.before_hole) + Len(m.after_hole)

Model_len_before_hole(m) == Len(m.before_hole)

Model_len_after_hole(m) == Len(m.after_hole)

Model_push_before_hole(m, value) ==
    [m EXCEPT !.before_hole = Append(m.before_hole, value)]

Model_push_after_hole(m, value) ==
    [m EXCEPT !.after_hole = Append(m.after_hole, value)]

\* Vec::pop: the vector without its last element, and that element
Vec_pop(s) ==
    IF Len(s) = 0
       THEN [vec |-> s, ret |-> None]
       ELSE [vec |-> SubSeq(s, 1, Len(s) - 1), ret |-> Some(s[Len(s)])]

Model_pop_before_hole(m) ==
    [model |-> [m EXCEPT !.before_hole = Vec_pop(m.before_hole).vec],
     ret |-> Vec_pop(m.before_hole).ret]

Model_pop_after_hole(m) ==
    [model |-> [m EXCEPT !.after_hole = Vec_pop(m.after_hole).vec],
     ret |-> Vec_pop(m.after_hole).ret]

\* after_hole.pop().unwrap() and before_hole.pop().unwrap() fail on an
\* empty vector, after the elements that were there have been moved
Model_move_hole_right_ok(m, amount) == amount <= Len(m.after_hole)

Model_move_hole_left_ok(m, amount) == amount <= Len(m.before_hole)

RECURSIVE Model_move_hole_right(_, _)
Model_move_hole_right(m, amount) ==
    IF amount = 0
       THEN m
       ELSE Model_move_hole_right(
              [before_hole |-> Append(m.before_hole,
                                      m.after_hole[Len(m.after_hole)]),
               after_hole |-> Vec_pop(m.after_hole).vec],
              amount - 1)

RECURSIVE Model_move_hole_left(_, _)
Model_move_hole_left(m, amount) ==
    IF amount = 0
       THEN m
       ELSE Model_move_hole_left(
              [before_hole |-> Vec_pop(m.before_hole).vec,
               after_hole |-> Append(m.after_hole,
                                     m.before_hole[Len(m.before_hole)])],
              amount - 1)

Model_set_hole_position(m, position) ==
    IF position > Len(m.before_hole)
       THEN Model_move_hole_right(m, position - Len(m.before_hole))
       ELSE Model_move_hole_left(m, Len(m.before_hole) - position)

\* whether Model::set_hole_position completes: its assertion, then the
\* unwraps of the move it delegates to
Model_set_hole_position_ok(m, position) ==
    /\ position <= Model_len(m)
    /\ IF position > Len(m.before_hole)
          THEN Model_move_hole_right_ok(m, position - Len(m.before_hole))
          ELSE Model_move_hole_left_ok(m, Len(m.before_hole) - position)

Model_before_hole(m) == m.before_hole

Model_after_hole(m) == Reverse(m.after_hole)

Model_iter(m) == Model_before_hole(m) \o Model_after_hole(m)

(* --------------------- tests::Operation::apply -------------------------- *)
(* Each action is one call on the container together with the same call on *)
(* the reference Model.  `last` records the call: its name, its argument,  *)
(* what the container and the Model returned, and whether the deque was    *)
(* full when the call began (so that a push had to grow the allocation).   *)
(* A failed assertion or unwrap sets `panicked` and ends the run; the      *)
(* container is called first, so a failure inside the Model finds the      *)
(* container already changed.                                              *)

Call(op, arg, ret, mret, full) ==
    [op |-> op, arg |-> arg, ret |-> ret, mret |-> mret, full |-> full]

Init ==
    /\ \E ctor \in {"new", "default", "with_capacity"} :
         \E n \in 0..MaxInitCap :
            /\ ctor \in {"new", "default"} => n = 0
            /\ hole_vec = (CASE ctor = "new" -> new
                             [] ctor = "default" -> default
                             [] OTHER -> with_capacity(n))
            /\ last = Call(ctor, n, None, None, FALSE)
    /\ model = Model_new
    /\ panicked = FALSE

PushBefore(value) ==
    /\ ~panicked
    /\ len(hole_vec) < MaxLen
    /\ hole_vec' = push_before_hole(hole_vec, value)
    /\ model' = Model_push_before_hole(model, value)
    /\ last' = Call("push_before_hole", value, None, None, is_full(hole_vec.vec))
    /\ UNCHANGED panicked

PushAfter(value) ==
    /\ ~panicked
    /\ len(hole_vec) < MaxLen
    /\ hole_vec' = push_after_hole(hole_vec, value)
    /\ model' = Model_push_after_hole(model, value)
    /\ last' = Call("push_after_hole", value, None, None, is_full(hole_vec.vec))
    /\ UNCHANGED panicked

\* pop_back().expect("BUG") fails when the deque has nothing to give
PopBefore ==
    /\ ~panicked
    /\ LET r == pop_before_hole(hole_vec)
           bug == len_before_hole(hole_vec) > 0 /\ r.ret = None
       IN /\ panicked' = bug
          /\ hole_vec' = IF bug THEN hole_vec ELSE r.hole
          /\ model' = IF bug THEN model ELSE Model_pop_before_hole(model).model
          /\ last' = Call("pop_before_hole", 0, r.ret,
                          Model_pop_before_hole(model).ret, is_full(hole_vec.vec))

PopAfter ==
    /\ ~panicked
    /\ LET r == pop_after_hole(hole_vec)
           bug == len_after_hole(hole_vec) > 0 /\ r.ret = None
       IN /\ panicked' = bug
          /\ hole_vec' = IF bug THEN hole_vec ELSE r.hole
          /\ model' = IF bug THEN model ELSE Model_pop_after_hole(model).model
          /\ last' = Call("pop_after_hole", 0, r.ret,
                          Model_pop_after_hole(model).ret, is_full(hole_vec.vec))

MoveRight(amount) ==
    /\ ~panicked
    /\ last' = Call("move_hole_right", amount, None, None, is_full(hole_vec.vec))
    /\ IF move_hole_right_ok(hole_vec, amount)
          THEN /\ hole_vec' = move_hole_right(hole_vec, amount)
               /\ IF Model_move_hole_right_ok(model, amount)
                     THEN /\ model' = Model_move_hole_right(model, amount)
                          /\ UNCHANGED panicked
                     ELSE /\ model' = Model_move_hole_right(
                                         model, Len(model.after_hole))
                          /\ panicked' = TRUE
          ELSE /\ panicked' = TRUE
               /\ UNCHANGED <<hole_vec, model>>

MoveLeft(amount) ==
    /\ ~panicked
    /\ last' = Call("move_hole_left", amount, None, None, is_full(hole_vec.vec))
    /\ IF move_hole_left_ok(hole_vec, amount)
          THEN /\ hole_vec' = move_hole_left(hole_vec, amount)
               /\ IF Model_move_hole_left_ok(model, amount)
                     THEN /\ model' = Model_move_hole_left(model, amount)
                          /\ UNCHANGED panicked
                     ELSE /\ model' = Model_move_hole_left(
                                         model, Len(model.before_hole))
                          /\ panicked' = TRUE
          ELSE /\ panicked' = TRUE
               /\ UNCHANGED <<hole_vec, model>>

\* the assertion of set_hole_position, then the one of the move it delegates to
set_hole_position_panics(h, position) ==
    \/ ~set_hole_position_ok(h, position)
    \/ IF position > h.hole_position
          THEN ~move_hole_right_ok(h, position - h.hole_position)
          ELSE ~move_hole_left_ok(h, h.hole_position - position)

SetPosition(position) ==
    /\ ~panicked
    /\ last' = Call("set_hole_position", position, None, None, is_full(hole_vec.vec))
    /\ IF set_hole_position_panics(hole_vec, position)
          THEN /\ panicked' = TRUE
               /\ UNCHANGED <<hole_vec, model>>
          ELSE /\ hole_vec' = set_hole_position(hole_vec, position)
               /\ IF Model_set_hole_position_ok(model, position)
                     THEN /\ model' = Model_set_hole_position(model, position)
                          /\ UNCHANGED panicked
                     ELSE /\ panicked' = TRUE
                          /\ UNCHANGED model

\* arguments offered to the relocations: every valid one and one too large
Amounts == 0..(MaxLen + 1)

Next ==
    \/ \E value \in Values : PushBefore(value)
    \/ \E value \in Values : PushAfter(value)
    \/ PopBefore
    \/ PopAfter
    \/ \E amount \in Amounts : MoveRight(amount)
    \/ \E amount \in Amounts : MoveLeft(amount)
    \/ \E position \in Amounts : SetPosition(position)

Spec == Init /\ [][Next]_vars

\* the run of tests::run_test, which starts every container with new()
InitNew == Init /\ last.op = "new"

SpecNew == InitNew /\ [][Next]_vars

(* ------------------------- observed views ------------------------------- *)
Concat2(p) == p[1] \o p[2]

Concat3(t) == t[1] \o t[2] \o t[3]

\* the regions as a caller sees them through the slice views
BeforeRegion(h) == Concat2(as_slices_before_hole(h))

AfterRegion(h) == Concat2(as_slices_after_hole(h))

Logical(h) == Concat3(as_slices(h))

TypeOK ==
    /\ hole_vec.hole_position \in Nat
    /\ hole_vec.vec.len \in 0..MaxLen
    /\ panicked \in BOOLEAN

\* the deque's ring currently wraps past the end of its allocation
Wrapped(h) == vd_as_slices(h.vec)[2] # <<>>

\* the branch condition with a strict comparison
HoleInFront_strict(h) == len_after_hole(h) < Len(vd_as_slices(h.vec)[1])

\* the hole boundary lies in the physical front run (first branch of the views)
HoleInFront(h) == len_after_hole(h) <= Len(vd_as_slices(h.vec)[1])

(* ------------------ the containers reachable from new() ---------------- *)
\* the containers one public operation with a valid argument leads to, as
\* Operation::rand draws them: pushes of any value while below the length
\* bound, both pops, and relocations within the available region
Successors(h) ==
    (IF len(h) < MaxLen
        THEN { push_before_hole(h, value) : value \in Values }
             \cup { push_after_hole(h, value) : value \in Values }
        ELSE {})
    \cup { pop_before_hole(h).hole, pop_after_hole(h).hole }
    \cup { move_hole_left(h, amount) : amount \in 0..len_before_hole(h) }
    \cup { move_hole_right(h, amount) : amount \in 0..len_after_hole(h) }
    \cup { set_hole_position(h, position) : position \in 0..len(h) }

RECURSIVE Closure(_, _)
Closure(done, frontier) ==
    IF frontier = {}
       THEN done
       ELSE Closure(done \cup frontier,
                    UNION { Successors(h) : h \in frontier }
                        \ (done \cup frontier))

ReachableFromNew == Closure({}, {new})

\* the four combinations of where the hole boundary lies and whether the
\* ring wraps, and those that occur in a container reachable from new()
Combination(h) == <<HoleInFront(h), Wrapped(h)>>

CombinationsFromNew == { Combination(h) : h \in ReachableFromNew }

(* ------------------------------ claims ---------------------------------- *)

\* C1: after any sequence of operations, the three slices of as_slices(),
\* concatenated in order, are the reference before sequence followed by the
\* reference after sequence, whatever the physical split of the deque is.
C1_AsSlicesIsBeforeThenAfter ==
    Concat3(as_slices(hole_vec)) =
        Model_before_hole(model) \o Model_after_hole(model)

\* a wrapped deque, hole boundary in the wrapped run, all three slices non-empty
C1_Witness ==
    /\ Wrapped(hole_vec)
    /\ ~HoleInFront(hole_vec)
    /\ \A i \in 1..3 : as_slices(hole_vec)[i] # <<>>
    /\ Model_before_hole(model) # Model_after_hole(model)

\* C2: the two slices of as_slices_before_hole(), concatenated, are exactly
\* the reference before sequence: len_before_hole() elements, in order, in
\* both branches of the reconciliation.
C2_BeforeSlicesAreBefore ==
    /\ Concat2(as_slices_before_hole(hole_vec)) = Model_before_hole(model)
    /\ Len(Concat2(as_slices_before_hole(hole_vec))) = len_before_hole(hole_vec)

\* second branch taken with elements on both sides of the hole
C2_Witness ==
    /\ ~HoleInFront(hole_vec)
    /\ len_before_hole(hole_vec) >= 1
    /\ len_after_hole(hole_vec) >= 2
    /\ \E i \in 1..Len(model.after_hole) :
          model.after_hole[i] # model.before_hole[1]

\* C3: the two slices of as_slices_after_hole(), concatenated, are exactly
\* the reference after sequence, starting right of the hole:
\* len_after_hole() elements, in order, in both branches.
C3_AfterSlicesAreAfter ==
    /\ Concat2(as_slices_after_hole(hole_vec)) = Model_after_hole(model)
    /\ Len(Concat2(as_slices_after_hole(hole_vec))) = len_after_hole(hole_vec)

\* first branch taken on a wrapped deque whose front run also holds
\* elements of the before-hole region
C3_Witness ==
    /\ HoleInFront(hole_vec)
    /\ Wrapped(hole_vec)
    /\ len_after_hole(hole_vec) >= 1
    /\ len_after_hole(hole_vec) < Len(vd_as_slices(hole_vec.vec)[1])

\* C4: after every step len(), len_before_hole() and len_after_hole() equal
\* the reference model's counts.
C4_LengthsMatchModel ==
    /\ len(hole_vec) = Model_len(model)
    /\ len_before_hole(hole_vec) = Model_len_before_hole(model)
    /\ len_after_hole(hole_vec) = Model_len_after_hole(model)

\* after a push right of the hole, with elements on both sides
C4_Witness ==
    /\ last.op = "push_after_hole"
    /\ Model_len_before_hole(model) >= 1
    /\ Model_len_after_hole(model) >= 2

\* C5: hole_position is always a valid split point, 0 <= hole_position <=
\* len(), so len_after_hole() never underflows and the two region lengths
\* add up to len(), also after pops and failed pops.
C5_HolePositionIsSplitPoint ==
    /\ hole_vec.hole_position >= 0
    /\ hole_vec.hole_position <= len(hole_vec)
    /\ len_after_hole(hole_vec) >= 0
    /\ len_before_hole(hole_vec) + len_after_hole(hole_vec) = len(hole_vec)

\* a failed pop left of the hole while the other region holds elements
C5_Witness ==
    /\ last.op = "pop_before_hole"
    /\ last.ret = None
    /\ hole_vec.hole_position = 0
    /\ len(hole_vec) >= 1

\* C6: pop_before_hole() returns None exactly when the before-hole region is
\* empty, otherwise the element immediately left of the hole (the last of
\* the reference before sequence), removing it and lowering hole_position
\* by 1; pop_after_hole() returns None exactly when the after-hole region
\* is empty, otherwise the element immediately right of the hole (the first
\* of the reference after sequence), removing it and keeping hole_position.
C6_PopBeforeStep ==
    LET b == BeforeRegion(hole_vec)
    IN /\ last'.ret = None <=> b = <<>>
       /\ last'.ret = last'.mret
       /\ b # <<>> =>
            /\ last'.ret = Some(b[Len(b)])
            /\ last'.ret = Some(Model_before_hole(model)[Len(b)])
            /\ BeforeRegion(hole_vec') = SubSeq(b, 1, Len(b) - 1)
            /\ AfterRegion(hole_vec') = AfterRegion(hole_vec)
            /\ hole_vec'.hole_position = hole_vec.hole_position - 1

C6_PopAfterStep ==
    LET a == AfterRegion(hole_vec)
    IN /\ last'.ret = None <=> a = <<>>
       /\ last'.ret = last'.mret
       /\ a # <<>> =>
            /\ last'.ret = Some(a[1])
            /\ last'.ret = Some(Model_after_hole(model)[1])
            /\ AfterRegion(hole_vec') = SubSeq(a, 2, Len(a))
            /\ BeforeRegion(hole_vec') = BeforeRegion(hole_vec)
            /\ hole_vec'.hole_position = hole_vec.hole_position

C6_PopsReturnAdjacentElement ==
    [][/\ last'.op = "pop_before_hole" => C6_PopBeforeStep
       /\ last'.op = "pop_after_hole" => C6_PopAfterStep]_vars

\* a successful pop right of the hole with elements left on both sides
C6_Witness ==
    /\ last.op = "pop_after_hole"
    /\ last.ret = Some(2)
    /\ len_before_hole(hole_vec) >= 1
    /\ len_after_hole(hole_vec) >= 1
    /\ 1 \in { BeforeRegion(hole_vec)[i] : i \in 1..len_before_hole(hole_vec) }

\* C7: a pop on an empty side returns None and changes neither
\* hole_position nor the deque, even when the other region is non-empty.
C7_EmptySidePopChangesNothing ==
    [][/\ (last'.op = "pop_before_hole" /\ len_before_hole(hole_vec) = 0) =>
             (last'.ret = None /\ hole_vec' = hole_vec /\ ~panicked')
       /\ (last'.op = "pop_after_hole" /\ len_after_hole(hole_vec) = 0) =>
             (last'.ret = None /\ hole_vec' = hole_vec /\ ~panicked')]_vars

\* a failed pop right of the hole while the before-hole region holds elements
C7_Witness ==
    /\ last.op = "pop_after_hole"
    /\ last.ret = None
    /\ len_after_hole(hole_vec) = 0
    /\ len_before_hole(hole_vec) >= 2

\* C8: push_before_hole(value) appends value at the end of the before-hole
\* region, raises hole_position by exactly 1 and leaves the earlier
\* before-hole elements and the whole after-hole region as they were, also
\* when the deque has to grow.
C8_PushBeforeAppendsLeftOfHole ==
    [][last'.op = "push_before_hole" =>
         /\ BeforeRegion(hole_vec') = Append(BeforeRegion(hole_vec), last'.arg)
         /\ AfterRegion(hole_vec') = AfterRegion(hole_vec)
         /\ hole_vec'.hole_position = hole_vec.hole_position + 1
         /\ ~panicked']_vars

\* a push left of the hole that grew a full deque holding both regions
C8_Witness ==
    /\ last.op = "push_before_hole"
    /\ last.full
    /\ len_before_hole(hole_vec) >= 2
    /\ len_after_hole(hole_vec) >= 1
    /\ capacity(hole_vec.vec) > len(hole_vec)

\* C9: push_after_hole(value) inserts value at the start of the after-hole
\* region and leaves hole_position, the before-hole region and the order of
\* the earlier after-hole elements as they were, also when the deque has to
\* grow.
C9_PushAfterInsertsRightOfHole ==
    [][last'.op = "push_after_hole" =>
         /\ AfterRegion(hole_vec') = <<last'.arg>> \o AfterRegion(hole_vec)
         /\ BeforeRegion(hole_vec') = BeforeRegion(hole_vec)
         /\ hole_vec'.hole_position = hole_vec.hole_position
         /\ ~panicked']_vars

\* a push right of the hole that grew a full deque holding both regions
C9_Witness ==
    /\ last.op = "push_after_hole"
    /\ last.full
    /\ len_before_hole(hole_vec) >= 1
    /\ len_after_hole(hole_vec) >= 2
    /\ capacity(hole_vec.vec) > len(hole_vec)

\* C10: for 0 <= amount <= len_after_hole(), move_hole_right(amount) moves
\* the first amount elements of the after-hole region to the end of the
\* before-hole region in their order: hole_position grows by amount, len()
\* and the full logical sequence are unchanged.
C10_MoveRightStep ==
    LET a == AfterRegion(hole_vec)
        amount == last'.arg
    IN /\ ~panicked'
       /\ BeforeRegion(hole_vec') = BeforeRegion(hole_vec) \o SubSeq(a, 1, amount)
       /\ AfterRegion(hole_vec') = SubSeq(a, amount + 1, Len(a))
       /\ hole_vec'.hole_position = hole_vec.hole_position + amount
       /\ len(hole_vec') = len(hole_vec)
       /\ Logical(hole_vec') = Logical(hole_vec)

C10_MoveRightShiftsPrefix ==
    [][(last'.op = "move_hole_right" /\ last'.arg <= len_after_hole(hole_vec))
          => C10_MoveRightStep]_vars

\* a move by two or more, on a wrapped deque, that leaves elements right
\* of the hole
C10_Witness ==
    /\ last.op = "move_hole_right"
    /\ ~panicked
    /\ last.arg >= 2
    /\ len_before_hole(hole_vec) >= last.arg
    /\ len_after_hole(hole_vec) >= 1
    /\ Wrapped(hole_vec)
    /\ \E i \in 1..(len(hole_vec) - 1) : Logical(hole_vec)[i] # Logical(hole_vec)[i + 1]

\* C11: for 0 <= amount <= len_before_hole(), move_hole_left(amount) moves
\* the last amount elements of the before-hole region to the start of the
\* after-hole region in their order: hole_position drops by amount, len()
\* and the full logical sequence are unchanged.
C11_MoveLeftStep ==
    LET b == BeforeRegion(hole_vec)
        amount == last'.arg
    IN /\ ~panicked'
       /\ hole_vec'.hole_position = hole_vec.hole_position - amount
       /\ len(hole_vec') = len(hole_vec)
       /\ BeforeRegion(hole_vec') = SubSeq(b, 1, Len(b) - amount)
       /\ AfterRegion(hole_vec') =
             SubSeq(b, Len(b) - amount + 1, Len(b)) \o AfterRegion(hole_vec)
       /\ Logical(hole_vec') = Logical(hole_vec)

C11_MoveLeftShiftsSuffix ==
    [][(last'.op = "move_hole_left" /\ last'.arg <= len_before_hole(hole_vec))
          => C11_MoveLeftStep]_vars

\* a move by two or more, on a wrapped deque, that leaves elements left of
\* the hole
C11_Witness ==
    /\ last.op = "move_hole_left"
    /\ ~panicked
    /\ last.arg >= 2
    /\ len_after_hole(hole_vec) >= last.arg
    /\ len_before_hole(hole_vec) >= 1
    /\ Wrapped(hole_vec)
    /\ AfterRegion(hole_vec)[1] # AfterRegion(hole_vec)[2]

\* C12: for 0 <= p <= len(), set_hole_position(p) trips no assertion,
\* neither its own nor the one of the move it delegates to; afterwards
\* len_before_hole() = p, and len() and the full logical sequence are
\* unchanged.
C12_SetPositionStep ==
    /\ ~set_hole_position_panics(hole_vec, last'.arg)
    /\ ~panicked'
    /\ len_before_hole(hole_vec') = last'.arg
    /\ len(hole_vec') = len(hole_vec)
    /\ Logical(hole_vec') = Logical(hole_vec)

C12_SetPositionReachesTarget ==
    [][(last'.op = "set_hole_position" /\ last'.arg <= len(hole_vec))
          => C12_SetPositionStep]_vars

\* a set_hole_position(1) on a wrapped deque with elements on both sides
C12_Witness ==
    /\ last.op = "set_hole_position"
    /\ ~panicked
    /\ last.arg = 1
    /\ len_before_hole(hole_vec) = 1
    /\ len_after_hole(hole_vec) >= 2
    /\ Wrapped(hole_vec)

\* C13: for 0 <= k <= len_after_hole(), move_hole_right(k) followed by
\* move_hole_left(k) is accepted and restores hole_position, the full
\* logical sequence and both regions.
C13_RoundTrip(k) ==
    LET there == move_hole_right(hole_vec, k)
        back == move_hole_left(there, k)
    IN /\ move_hole_right_ok(hole_vec, k)
       /\ move_hole_left_ok(there, k)
       /\ back.hole_position = hole_vec.hole_position
       /\ Logical(back) = Logical(hole_vec)
       /\ BeforeRegion(back) = BeforeRegion(hole_vec)
       /\ AfterRegion(back) = AfterRegion(hole_vec)

C13_MoveRightThenLeftRestores ==
    \A k \in 0..len_after_hole(hole_vec) : C13_RoundTrip(k)

\* a wrapped deque where a round trip by two crosses distinct elements and
\* the state in between differs from the one it started from
C13_Witness ==
    /\ ~panicked
    /\ len_after_hole(hole_vec) >= 2
    /\ len_before_hole(hole_vec) >= 1
    /\ Wrapped(hole_vec)
    /\ AfterRegion(hole_vec)[1] # AfterRegion(hole_vec)[2]
    /\ BeforeRegion(move_hole_right(hole_vec, 2)) # BeforeRegion(hole_vec)
    /\ C13_RoundTrip(2)

\* C14: a relocation called outside its precondition -- move_hole_right
\* beyond len_after_hole(), move_hole_left beyond len_before_hole(),
\* set_hole_position beyond len() -- fails on an assertion, and at the
\* failure hole_position and the deque are exactly what they were before
\* the call, so hole_position <= len() still holds.
C14_Violates ==
    \/ last'.op = "move_hole_right" /\ last'.arg > len_after_hole(hole_vec)
    \/ last'.op = "move_hole_left" /\ last'.arg > len_before_hole(hole_vec)
    \/ last'.op = "set_hole_position" /\ last'.arg > len(hole_vec)

C14_ViolationPanicsWithoutMutation ==
    [][C14_Violates =>
         /\ panicked'
         /\ hole_vec' = hole_vec
         /\ hole_vec'.hole_position \in 0..len(hole_vec')]_vars

\* a failed move_hole_right whose amount fits len() but not the after-hole
\* region
C14_Witness ==
    /\ panicked
    /\ last.op = "move_hole_right"
    /\ last.arg > len_after_hole(hole_vec)
    /\ last.arg <= len(hole_vec)
    /\ len_after_hole(hole_vec) >= 1

\* C15: a container made by new(), with_capacity(n) or default() has
\* hole_position 0, len() 0, is_empty() true, empty regions and empty slice
\* views; and is_empty() is true exactly when len() = 0.
C15_Constructed == last.op \in {"new", "default", "with_capacity"}

C16_TwoWayViewsDropAPiece ==
    LET t == as_slices(hole_vec)
    IN /\ IF len_after_hole(hole_vec) <= Len(vd_as_slices(hole_vec.vec)[1])
             THEN /\ as_slices_before_hole(hole_vec) = <<t[1], t[2]>>
                  /\ as_slices_after_hole(hole_vec) = <<t[3], <<>>>>
             ELSE /\ as_slices_before_hole(hole_vec) = <<t[1], <<>>>>
                  /\ as_slices_after_hole(hole_vec) = <<t[2], t[3]>>
       /\ \/ Len(t[1]) = len_before_hole(hole_vec)
          \/ Len(t[1]) + Len(t[2]) = len_before_hole(hole_vec)

\* first branch on a wrapped deque with three non-empty slices
C16_Witness ==
    /\ HoleInFront(hole_vec)
    /\ Wrapped(hole_vec)
    /\ \A i \in 1..3 : as_slices(hole_vec)[i] # <<>>
    /\ as_slices(hole_vec)[1] # as_slices(hole_vec)[2]

\* C17: move_hole_right(0), move_hole_left(0) and
\* set_hole_position(len_before_hole()) never fail, also on an empty
\* container or an empty region, and leave hole_position, len() and both
\* regions unchanged.
C17_ZeroDistance ==
    \/ last'.op \in {"move_hole_right", "move_hole_left"} /\ last'.arg = 0
    \/ last'.op = "set_hole_position" /\ last'.arg = len_before_hole(hole_vec)

C17_ZeroDistanceIsNoOp ==
    [][C17_ZeroDistance =>
         /\ ~panicked'
         /\ hole_vec'.hole_position = hole_vec.hole_position
         /\ len(hole_vec') = len(hole_vec)
         /\ BeforeRegion(hole_vec') = BeforeRegion(hole_vec)
         /\ AfterRegion(hole_vec') = AfterRegion(hole_vec)]_vars

\* move_hole_right(0) accepted with nothing right of the hole
C17_Witness ==
    /\ last.op = "move_hole_right"
    /\ last.arg = 0
    /\ ~panicked
    /\ len_after_hole(hole_vec) = 0
    /\ len_before_hole(hole_vec) >= 1

\* C18 as stated: move_hole_right(len_after_hole()) and
\* move_hole_left(len_before_hole()) are accepted and are no-ops, leaving
\* hole_position and both regions unchanged.
C18_FullRegion ==
    \/ last'.op = "move_hole_right" /\ last'.arg = len_after_hole(hole_vec)
    \/ last'.op = "move_hole_left" /\ last'.arg = len_before_hole(hole_vec)

C18_FullRegionMoveIsNoOp ==
    [][C18_FullRegion =>
         /\ ~panicked'
         /\ hole_vec'.hole_position = hole_vec.hole_position
         /\ BeforeRegion(hole_vec') = BeforeRegion(hole_vec)
         /\ AfterRegion(hole_vec') = AfterRegion(hole_vec)]_vars

\* C18 amended: a relocation by exactly the available region is accepted
\* without a precondition failure, like a zero-distance move, and moves the
\* whole region across the hole: after move_hole_right(len_after_hole())
\* hole_position = len() and the after-hole region is empty, after
\* move_hole_left(len_before_hole()) hole_position = 0 and the before-hole
\* region is empty; len() and the logical sequence are unchanged, so it is
\* a no-op only when that region was empty.
C18_FullRegionMoveCrossesRegion ==
    [][C18_FullRegion =>
         /\ ~panicked'
         /\ len(hole_vec') = len(hole_vec)
         /\ Logical(hole_vec') = Logical(hole_vec)
         /\ last'.op = "move_hole_right" =>
              /\ hole_vec'.hole_position = len(hole_vec)
              /\ AfterRegion(hole_vec') = <<>>
              /\ BeforeRegion(hole_vec') = Logical(hole_vec)
         /\ last'.op = "move_hole_left" =>
              /\ hole_vec'.hole_position = 0
              /\ BeforeRegion(hole_vec') = <<>>
              /\ AfterRegion(hole_vec') = Logical(hole_vec)
         /\ (hole_vec'.hole_position = hole_vec.hole_position) <=> (last'.arg = 0)]_vars

\* move_hole_left by the whole before-hole region of two or more elements
C18_Witness ==
    /\ last.op = "move_hole_left"
    /\ ~panicked
    /\ last.arg >= 2
    /\ hole_vec.hole_position = 0
    /\ len_after_hole(hole_vec) > last.arg

\* C20: the slice views never fail.  In the first branch the split index
\* len_after_hole() is at most physical_front.len(); in the second branch
\* len_before_hole() < physical_back.len(), so physical_back.len() -
\* len_before_hole() does not underflow and is a valid split index.
C20_SliceViewsAreTotal ==
    LET after_hole == vd_as_slices(hole_vec.vec)[1]
        before_hole == vd_as_slices(hole_vec.vec)[2]
    IN /\ slices_split_ok(hole_vec)
       /\ Len(after_hole) + Len(before_hole) = len(hole_vec)
       /\ len_after_hole(hole_vec) > Len(after_hole) =>
            /\ len_before_hole(hole_vec) < Len(before_hole)
            /\ Len(before_hole) - len_before_hole(hole_vec) \in 1..Len(before_hole)

\* second branch with elements left of the hole and a split inside the
\* wrapped run
C20_Witness ==
    /\ ~HoleInFront(hole_vec)
    /\ len_before_hole(hole_vec) >= 1
    /\ Len(vd_as_slices(hole_vec.vec)[2]) - len_before_hole(hole_vec) >= 1
    /\ Len(vd_as_slices(hole_vec.vec)[1]) >= 1

\* C19 as stated: each of the four combinations {hole boundary in the front
\* run, in the back run} x {wrapped, not wrapped} occurs in some container
\* reachable from new() by the public operations.
C19_AllFourCombinationsOccur ==
    /\ hole_vec \in ReachableFromNew
    /\ \A c \in BOOLEAN \X BOOLEAN : c \in CombinationsFromNew

\* C19 amended: three of the four combinations occur in containers
\* reachable from new(); the fourth, hole boundary in the back run of a
\* ring that does not wrap, occurs in none, because an empty back run puts
\* all len() >= len_after_hole() elements in the front run.
C19_ThreeCombinationsOccur ==
    /\ hole_vec \in ReachableFromNew
    /\ ~HoleInFront(hole_vec) => Wrapped(hole_vec)
    /\ CombinationsFromNew = {<<TRUE, TRUE>>, <<TRUE, FALSE>>, <<FALSE, TRUE>>}

\* a container grown from new() whose hole boundary lies in the back run
C19_Witness ==
    /\ ~HoleInFront(hole_vec)
    /\ Wrapped(hole_vec)
    /\ len_before_hole(hole_vec) >= 1
    /\ len_after_hole(hole_vec) >= 2

====
